---- MODULE Spec2Model ----
(***************************************************************************)
(* Model of DogBreedEvaluator (src/model/evaluator.py): the batch          *)
(* evaluation engine, its metrics, top-k accuracy and the worst-prediction *)
(* ranking.                                                                *)
(*                                                                         *)
(* Numbers.  Probabilities are fixed-point integers in units of 1/One, so  *)
(* the value 1.0 is One.  Ratios (accuracy, precision, recall, F1, top-k   *)
(* accuracy) are exact rationals <<num, den>> in lowest terms, den > 0.    *)
(* Sequences are 1-based; the 0-based sample index i of the code is        *)
(* position i + 1, and reported 'index' fields keep the code's 0-based     *)
(* value.                                                                  *)
(***************************************************************************)
EXTENDS Integers, Sequences, FiniteSets, TLC

\* ---------------------------------------------------------------- bounds
NumClasses == 3
MaxSamples == 2

\* 1.0 in probability units (the literal 1 of `1 - confidence`)
One == 20

Classes == 0 .. (NumClasses - 1)
ProbLevels == {4, 8, 12}

\* test_ds: the labelled test data the run loaded, each image with the
\* probability row the classifier gives it; class_names, results: the
\* evaluator's fields; ret: what the last call returned; files: the
\* report files on disk; call: the locals of the predict_breed invocation
\* in progress; crop_file: the file temp_crop.jpg; calls: the locals of the
\* predict_breed invocations the server's threads run at the same time;
\* output_dir: the folders data_divider fills
VARIABLES test_ds, class_names, results, ret, files, call, crop_file, calls, output_dir

vars == <<test_ds, class_names, results, ret, files, call, crop_file, calls, output_dir>>

\* ------------------------------------------------------------ arithmetic
RECURSIVE GCD(_, _)
GCD(a, b) == IF b = 0 THEN a ELSE GCD(b, a % b)

Abs(x) == IF x < 0 THEN -x ELSE x

\* the rational n/d in lowest terms (d # 0)
Rat(n, d) ==
    LET g == GCD(Abs(n), Abs(d))
        s == IF d < 0 THEN -1 ELSE 1
    IN  <<(s * n) \div g, (s * d) \div g>>

Zero == <<0, 1>>
RatAdd(a, b) == Rat(a[1] * b[2] + b[1] * a[2], a[2] * b[2])
RatMul(a, b) == Rat(a[1] * b[1], a[2] * b[2])
RatLeq(a, b) == a[1] * b[2] <= b[1] * a[2]

RECURSIVE SumSeq(_)
SumSeq(s) == IF s = <<>> THEN 0 ELSE Head(s) + SumSeq(Tail(s))

\* ---------------------------------------------------------------- numpy
\* np.argmax of one row: the first index holding the maximum
argmax(row) ==
    CHOOSE c \in DOMAIN row :
        /\ \A d \in DOMAIN row : row[d] <= row[c]
        /\ \A d \in DOMAIN row : row[d] = row[c] => c <= d

\* np.unique(np.concatenate([a, b])): the distinct values, ascending
RECURSIVE SortedSeqOf(_)
SortedSeqOf(S) ==
    IF S = {} THEN <<>>
    ELSE LET m == CHOOSE x \in S : \A y \in S : x <= y
         IN  <<m>> \o SortedSeqOf(S \ {m})

Range(s) == {s[i] : i \in DOMAIN s}

\* mutation: only the true labels are taken
unique_true_only(a, b) == SortedSeqOf(Range(a))

\* mutation: every class of the vocabulary is taken
unique_all_classes(a, b) == SortedSeqOf(Classes)

\* mutation: duplicates dropped without sorting (order of first appearance)
RECURSIVE dedupe(_, _)
dedupe(s, seen) ==
    IF s = <<>> THEN <<>>
    ELSE IF Head(s) \in seen THEN dedupe(Tail(s), seen)
    ELSE <<Head(s)>> \o dedupe(Tail(s), seen \cup {Head(s)})

unique_unsorted(a, b) == dedupe(a \o b, {})

unique_concat(a, b) == SortedSeqOf(Range(a) \cup Range(b))

\* np.argsort of one row: the class indices in ascending order of value;
\* equal values keep ascending index order (insertion sort on short rows)
RECURSIVE argsort_from(_, _, _)
argsort_from(row, c, sorted) ==
    IF c \notin DOMAIN row THEN sorted
    ELSE LET pos == Cardinality({j \in DOMAIN sorted : row[sorted[j]] <= row[c]})
         IN  argsort_from(row, c + 1,
                 SubSeq(sorted, 1, pos) \o <<c>> \o SubSeq(sorted, pos + 1, Len(sorted)))

argsort(row) == argsort_from(row, 0, <<>>)

\* mutation: a negative bound that reaches before the start is taken to
\* the end of the sequence instead of its start
slice_bound_past_end(i, len) ==
    IF i < 0 THEN (IF i + len < 0 THEN len ELSE i + len)
    ELSE (IF i > len THEN len ELSE i)

\* Python slice bounds: a negative bound counts from the end, and both
\* are clamped to the sequence
slice_bound(i, len) ==
    IF i < 0 THEN (IF i + len < 0 THEN 0 ELSE i + len)
    ELSE (IF i > len THEN len ELSE i)

\* s[a:]
slice_from(s, a) == SubSeq(s, slice_bound(a, Len(s)) + 1, Len(s))

\* s[:b]
slice_to(s, b) == SubSeq(s, 1, slice_bound(b, Len(s)))

\* ------------------------------------------------------- sklearn.metrics
\* mutation: zero_division=1
prf_divide_one(num, den) == IF den = 0 THEN <<1, 1>> ELSE Rat(num, den)

\* _prf_divide with zero_division=0
prf_divide(num, den) == IF den = 0 THEN Zero ELSE Rat(num, den)

tp_sum(y_true, y_pred, c)   == Cardinality({i \in DOMAIN y_true : y_true[i] = c /\ y_pred[i] = c})
pred_sum(y_true, y_pred, c) == Cardinality({i \in DOMAIN y_pred : y_pred[i] = c})
true_sum(y_true, y_pred, c) == Cardinality({i \in DOMAIN y_true : y_true[i] = c})

\* mutation: precision divided by the true members (recall's denominator)
class_precision_by_true(y_true, y_pred, c) ==
    prf_divide(tp_sum(y_true, y_pred, c), true_sum(y_true, y_pred, c))

class_precision(y_true, y_pred, c) ==
    prf_divide(tp_sum(y_true, y_pred, c), pred_sum(y_true, y_pred, c))

class_recall(y_true, y_pred, c) ==
    prf_divide(tp_sum(y_true, y_pred, c), true_sum(y_true, y_pred, c))

\* F1 from precision p and recall r: 2pr / (p + r), 0 when p + r = 0
f_score(p, r) ==
    IF p[1] = 0 /\ r[1] = 0 THEN Zero
    ELSE Rat(2 * p[1] * r[1], p[1] * r[2] + r[1] * p[2])

class_f1(y_true, y_pred, c) ==
    f_score(class_precision(y_true, y_pred, c), class_recall(y_true, y_pred, c))

accuracy_score(y_true, y_pred) ==
    Rat(Cardinality({i \in DOMAIN y_true : y_true[i] = y_pred[i]}), Len(y_true))

\* the metric a *_score function computes for one class
class_metric(metric, y_true, y_pred, c) ==
    CASE metric = "precision" -> class_precision(y_true, y_pred, c)
      [] metric = "recall"    -> class_recall(y_true, y_pred, c)
      [] metric = "f1"        -> class_f1(y_true, y_pred, c)

\* average=None: one value per label, in the order of `labels`
RECURSIVE per_class(_, _, _, _)
per_class(metric, y_true, y_pred, labels) ==
    IF labels = <<>> THEN <<>>
    ELSE <<class_metric(metric, y_true, y_pred, Head(labels))>>
            \o per_class(metric, y_true, y_pred, Tail(labels))

\* unique_labels(y_true, y_pred): the labels present in either, ascending
unique_labels(y_true, y_pred) == SortedSeqOf(Range(y_true) \cup Range(y_pred))

\* np.average(values, weights): sum of weight * value over sum of weights
RECURSIVE weighted_sum(_, _)
weighted_sum(values, weights) ==
    IF values = <<>> THEN Zero
    ELSE RatAdd(RatMul(Rat(Head(weights), 1), Head(values)),
                weighted_sum(Tail(values), Tail(weights)))

average(total, weight) == IF weight = 0 THEN Zero ELSE Rat(total[1], total[2] * weight)

RECURSIVE supports(_, _, _)
supports(y_true, y_pred, labels) ==
    IF labels = <<>> THEN <<>>
    ELSE <<true_sum(y_true, y_pred, Head(labels))>> \o supports(y_true, y_pred, Tail(labels))

\* mutation: the unweighted (macro) mean
weighted_over_macro(values, weights) ==
    average(weighted_sum(values, [i \in DOMAIN values |-> 1]), Len(values))

weighted_over(values, weights) == average(weighted_sum(values, weights), SumSeq(weights))

\* average='weighted', labels=None: the labels are those present in y_true
\* or y_pred, each weighted by its support (number of true members)
weighted(metric, y_true, y_pred) ==
    weighted_over(per_class(metric, y_true, y_pred, unique_labels(y_true, y_pred)),
                  supports(y_true, y_pred, unique_labels(y_true, y_pred)))

\* ------------------------------------------------------------- evaluator
metrics_record(y_true, y_pred, unique_classes, num_classes) ==
    [accuracy            |-> accuracy_score(y_true, y_pred),
     precision           |-> weighted("precision", y_true, y_pred),
     recall              |-> weighted("recall", y_true, y_pred),
     f1                  |-> weighted("f1", y_true, y_pred),
     precision_per_class |-> per_class("precision", y_true, y_pred, unique_classes),
     recall_per_class    |-> per_class("recall", y_true, y_pred, unique_classes),
     f1_per_class        |-> per_class("f1", y_true, y_pred, unique_classes),
     num_classes_in_data |-> Len(unique_classes),
     total_classes       |-> num_classes]

_calculate_metrics(y_true, y_pred, y_pred_proba, num_classes) ==
    metrics_record(y_true, y_pred, unique_concat(y_true, y_pred), num_classes)

\* inputs: a sample is a true label and the classifier's probability row
ProbaVectors == {v \in [Classes -> ProbLevels] : SumSeq([i \in 1 .. NumClasses |-> v[i - 1]]) = One}

Samples == [label : Classes, proba : ProbaVectors]

RECURSIVE SeqsUpTo(_, _)
SeqsUpTo(S, n) ==
    IF n = 0 THEN {<<>>}
    ELSE LET shorter == SeqsUpTo(S, n - 1)
         IN  shorter \cup {Append(s, x) : s \in {t \in shorter : Len(t) = n - 1}, x \in S}

\* the four-sample batch of the documented scenario: true = [0,0,1,1],
\* confidences 0.9, 0.4, 0.8, 0.95 at the predicted labels [0,1,1,1]
ScenarioRow(a, b, r) ==
    [c \in Classes |-> IF c = 0 THEN a ELSE IF c = 1 THEN b ELSE IF c = 2 THEN r ELSE 0]

ScenarioBatch ==
    << [label |-> 0, proba |-> ScenarioRow(18, 1, 1)],
       [label |-> 0, proba |-> ScenarioRow(6, 8, 6)],
       [label |-> 1, proba |-> ScenarioRow(2, 16, 2)],
       [label |-> 1, proba |-> ScenarioRow(1, 19, 0)] >>

\* a batch with a misclassified sample of confidence 0.4 and a correctly
\* classified one of confidence 0.55
BorderlineBatch ==
    << [label |-> 0, proba |-> ScenarioRow(6, 8, 6)],
       [label |-> 0, proba |-> ScenarioRow(11, 5, 4)] >>

\* the test data a run can load: at least one sample (the metrics and the
\* top-k accuracy divide by the number of samples)
Datasets == (SeqsUpTo(Samples, MaxSamples) \ {<<>>}) \cup {ScenarioBatch, BorderlineBatch}

\* the length of the longest dataset
MaxBatch == IF MaxSamples > Len(ScenarioBatch) THEN MaxSamples ELSE Len(ScenarioBatch)

Paths == {"evaluation_results.json"}

HasResults == DOMAIN results # {}

NoRet == [op |-> "none"]

NoFile == <<>>
NoCall == [pc |-> "idle"]
NoCalls == <<>>
NoOutput == <<>>

Init ==
    /\ test_ds \in Datasets
    /\ class_names = [i \in 1 .. NumClasses |-> <<"breed", i - 1>>]
    /\ results = <<>>
    /\ ret = NoRet
    /\ files = [p \in Paths |-> NoFile]
    /\ call = NoCall
    /\ calls = NoCalls
    /\ output_dir = NoOutput
    /\ crop_file = NoFile

\* np.argmax(predictions, axis=1): the predicted label of every row
RECURSIVE argmax_rows(_)
argmax_rows(rows) ==
    IF rows = <<>> THEN <<>> ELSE <<argmax(Head(rows))>> \o argmax_rows(Tail(rows))

\* the labels and the prediction rows of a dataset, in dataset order
RECURSIVE labels_of(_)
labels_of(ds) == IF ds = <<>> THEN <<>> ELSE <<Head(ds).label>> \o labels_of(Tail(ds))

RECURSIVE predict(_)
predict(ds) == IF ds = <<>> THEN <<>> ELSE <<Head(ds).proba>> \o predict(Tail(ds))

\* the record both evaluate methods store in self.results
make_results(y_true, y_pred, y_pred_proba, names) ==
    [metrics |-> _calculate_metrics(y_true, y_pred, y_pred_proba, Len(names)),
     y_true |-> y_true, y_pred |-> y_pred, y_pred_proba |-> y_pred_proba]

\* the results evaluate_dataset stores for a dataset: predictions row by
\* row, argmax as predicted label, then the metrics
dataset_results(ds, names) ==
    make_results(labels_of(ds), argmax_rows(predict(ds)), predict(ds), names)

\* mutation: what was collected before the exception is stored
results_after_raise_partial(res, y_true, y_pred, y_pred_proba) ==
    IF DOMAIN res = {} THEN res
    ELSE [res EXCEPT !.y_true = y_true, !.y_pred = y_pred, !.y_pred_proba = y_pred_proba]

\* self.results after an evaluate call that raised: the labels and
\* predictions collected so far are locals, and self.results is assigned
\* only after the metrics are there
results_after_raise(res, y_true, y_pred, y_pred_proba) == res

\* evaluate_dataset(test_ds) where model.predict raises on batch fail_at
\* (a batch is one sample; fail_at = 0: it never raises): the exception
\* leaves the loop and the method
evaluate_dataset_run(fail_at) ==
    /\ fail_at <= Len(test_ds)
    /\ IF fail_at = 0
       THEN /\ results' = dataset_results(test_ds, class_names)
            /\ ret' = [op |-> "evaluate_dataset", failure |-> "none", raised |-> FALSE,
                       val |-> results'.metrics]
       ELSE LET done == SubSeq(test_ds, 1, fail_at - 1)
            IN  /\ results' = results_after_raise(results, labels_of(done),
                                                  argmax_rows(predict(done)), predict(done))
                /\ ret' = [op |-> "evaluate_dataset", failure |-> "predict", raised |-> TRUE]
    /\ UNCHANGED <<test_ds, class_names, files, call, crop_file, calls, output_dir>>

evaluate_dataset == evaluate_dataset_run(0)

\* one-hot rows of a label sequence
one_hot(labels) == [i \in DOMAIN labels |-> [c \in Classes |-> IF c = labels[i] THEN 1 ELSE 0]]

\* the results evaluate_arrays stores: y_test is either a vector of labels
\* or a matrix of one-hot rows, which argmax turns back into labels
arrays_results(y_test, is_matrix, y_pred_proba, names) ==
    make_results(IF is_matrix /\ NumClasses > 1 THEN argmax_rows(y_test) ELSE y_test,
                 argmax_rows(y_pred_proba), y_pred_proba, names)

\* evaluate_arrays(X_test, y_test) on the images and labels of ds; failure
\* says what raises: "predict" (model.predict), "metrics" (the metric
\* functions, after the predictions are there) or "none"
evaluate_arrays_on(ds, is_one_hot, failure) ==
    /\ IF failure = "none"
       THEN /\ results' = arrays_results(
                              IF is_one_hot THEN one_hot(labels_of(ds)) ELSE labels_of(ds),
                              is_one_hot, predict(ds), class_names)
            /\ ret' = [op |-> "evaluate_arrays", failure |-> "none", raised |-> FALSE,
                       val |-> results'.metrics]
       ELSE /\ results' =
                   IF failure = "predict"
                   THEN results_after_raise(results, <<>>, <<>>, <<>>)
                   ELSE results_after_raise(results, labels_of(ds),
                                            argmax_rows(predict(ds)), predict(ds))
            /\ ret' = [op |-> "evaluate_arrays", failure |-> failure, raised |-> TRUE]
    /\ UNCHANGED <<test_ds, class_names, files, call, crop_file, calls, output_dir>>

evaluate_arrays(is_one_hot) == evaluate_arrays_on(test_ds, is_one_hot, "none")

\* mutation: the first k of the ascending argsort kept ([:, :k])
top_k_accuracy_lowest(res, k) ==
    LET y_true == res.y_true
        top_k_preds == [i \in DOMAIN y_true |-> slice_to(argsort(res.y_pred_proba[i]), k)]
        correct == Cardinality({i \in DOMAIN y_true : y_true[i] \in Range(top_k_preds[i])})
    IN  Rat(correct, Len(y_true))

\* the top-k accuracy of stored results: rows argsorted ascending, last k kept
top_k_accuracy(res, k) ==
    LET y_true == res.y_true
        top_k_preds == [i \in DOMAIN y_true |-> slice_from(argsort(res.y_pred_proba[i]), -k)]
        correct == Cardinality({i \in DOMAIN y_true : y_true[i] \in Range(top_k_preds[i])})
    IN  Rat(correct, Len(y_true))

get_top_k_accuracy(k) ==
    /\ ret' = [op |-> "get_top_k_accuracy", arg |-> k,
               val |-> IF ~HasResults THEN Zero ELSE top_k_accuracy(results, k)]
    /\ UNCHANGED <<test_ds, class_names, results, files, call, crop_file, calls, output_dir>>

\* class name of a label, with the fallback for labels past the name list
class_name(names, label) ==
    IF label < Len(names) THEN names[label + 1] ELSE <<"Class_", label>>

\* mutation: the two branches of the error score exchanged
worst_entry_swapped(res, names, i) ==
    LET true_label == res.y_true[i]
        pred_label == res.y_pred[i]
        confidence == res.y_pred_proba[i][pred_label]
        is_correct == (true_label = pred_label)
    IN  [index       |-> i - 1,
         true_label  |-> class_name(names, true_label),
         pred_label  |-> class_name(names, pred_label),
         confidence  |-> confidence,
         is_correct  |-> is_correct,
         error_score |-> IF is_correct THEN confidence ELSE One - confidence]

\* mutation: the error score is the confidence whether or not the
\* prediction is correct
worst_entry_confidence(res, names, i) ==
    LET true_label == res.y_true[i]
        pred_label == res.y_pred[i]
        confidence == res.y_pred_proba[i][pred_label]
        is_correct == (true_label = pred_label)
    IN  [index       |-> i - 1,
         true_label  |-> class_name(names, true_label),
         pred_label  |-> class_name(names, pred_label),
         confidence  |-> confidence,
         is_correct  |-> is_correct,
         error_score |-> confidence]

\* the entry get_worst_predictions builds for sample i (1-based position)
worst_entry(res, names, i) ==
    LET true_label == res.y_true[i]
        pred_label == res.y_pred[i]
        confidence == res.y_pred_proba[i][pred_label]
        is_correct == (true_label = pred_label)
    IN  [index       |-> i - 1,
         true_label  |-> class_name(names, true_label),
         pred_label  |-> class_name(names, pred_label),
         confidence  |-> confidence,
         is_correct  |-> is_correct,
         error_score |-> IF ~is_correct THEN confidence ELSE One - confidence]

\* mutation: the sort without reverse=True (ascending)
RECURSIVE sort_asc(_, _)
sort_asc(todo, sorted) ==
    IF todo = <<>> THEN sorted
    ELSE LET e == Head(todo)
             pos == Cardinality({j \in DOMAIN sorted : sorted[j].error_score <= e.error_score})
         IN  sort_asc(Tail(todo),
                 SubSeq(sorted, 1, pos) \o <<e>> \o SubSeq(sorted, pos + 1, Len(sorted)))

\* mutation: an ascending sort read backwards, which turns entries with
\* equal keys around
RECURSIVE sort_asc_reversed(_, _)
sort_asc_reversed(todo, sorted) ==
    IF todo = <<>> THEN sorted
    ELSE LET e == Head(todo)
             pos == Cardinality({j \in DOMAIN sorted : sorted[j].error_score > e.error_score})
         IN  sort_asc_reversed(Tail(todo),
                 SubSeq(sorted, 1, pos) \o <<e>> \o SubSeq(sorted, pos + 1, Len(sorted)))

\* list.sort(key=error_score, reverse=True): descending, stable (entries
\* with equal keys keep their original relative order)
RECURSIVE sort_desc(_, _)
sort_desc(todo, sorted) ==
    IF todo = <<>> THEN sorted
    ELSE LET e == Head(todo)
             pos == Cardinality({j \in DOMAIN sorted : sorted[j].error_score >= e.error_score})
         IN  sort_desc(Tail(todo),
                 SubSeq(sorted, 1, pos) \o <<e>> \o SubSeq(sorted, pos + 1, Len(sorted)))

worst_predictions(res, names, n) ==
    LET worst == [i \in DOMAIN res.y_true |-> worst_entry(res, names, i)]
    IN  slice_to(sort_desc(worst, <<>>), n)

get_worst_predictions(n) ==
    /\ ret' = [op |-> "get_worst_predictions", arg |-> n,
               val |-> IF ~HasResults THEN <<>> ELSE worst_predictions(results, class_names, n)]
    /\ UNCHANGED <<test_ds, class_names, results, files, call, crop_file, calls, output_dir>>

\* mutation: rows are the predicted labels, columns the true ones
confusion_matrix_transposed(y_true, y_pred) ==
    LET labels == unique_labels(y_true, y_pred)
    IN  [i \in DOMAIN labels |-> [j \in DOMAIN labels |->
            Cardinality({s \in DOMAIN y_true :
                            y_pred[s] = labels[i] /\ y_true[s] = labels[j]})]]

\* sklearn's confusion_matrix(y_true, y_pred) without labels: the labels
\* are those present in either, ascending; rows true, columns predicted
confusion_matrix(y_true, y_pred) ==
    LET labels == unique_labels(y_true, y_pred)
    IN  [i \in DOMAIN labels |-> [j \in DOMAIN labels |->
            Cardinality({s \in DOMAIN y_true :
                            y_true[s] = labels[i] /\ y_pred[s] = labels[j]})]]

\* mutation: without results an empty matrix is returned
confusion_result_empty(res) ==
    IF DOMAIN res = {} THEN [none |-> FALSE, cm |-> <<>>]
    ELSE [none |-> FALSE, cm |-> confusion_matrix(res.y_true, res.y_pred)]

\* what get_confusion_matrix returns: None without results, else the matrix
confusion_result(res) ==
    IF DOMAIN res = {} THEN [none |-> TRUE, cm |-> <<>>]
    ELSE [none |-> FALSE, cm |-> confusion_matrix(res.y_true, res.y_pred)]

get_confusion_matrix ==
    /\ ret' = [op |-> "get_confusion_matrix", val |-> confusion_result(results)]
    /\ UNCHANGED <<test_ds, class_names, results, files, call, crop_file, calls, output_dir>>

\* save_results(filepath): nothing without results; otherwise the file is
\* opened for writing (truncating it) and the record dumped, and a failure
\* to open the file propagates to the caller
save_data(res, names) ==
    [metrics              |-> res.metrics,
     class_names          |-> names,
     num_samples          |-> Len(res.y_true),
     classes_in_test_data |-> res.metrics.num_classes_in_data]

\* mutation: the file is opened for appending
append_json(content, data) == content \o <<data>>

\* open(filepath, 'w') and json.dump: the content of a file is the
\* sequence of JSON documents in it, and the new document replaces it
write_json(content, data) == <<data>>

\* ret.before: the content of the file when save_results was called;
\* ret.write_failed: the file could not be opened for writing
save_results(filepath, open_fails) ==
    /\ IF ~HasResults
       THEN /\ ret' = [op |-> "save_results", arg |-> filepath, raised |-> FALSE,
                       write_failed |-> FALSE, before |-> files[filepath]]
            /\ UNCHANGED files
       ELSE IF open_fails
       THEN /\ ret' = [op |-> "save_results", arg |-> filepath, raised |-> TRUE,
                       write_failed |-> TRUE, before |-> files[filepath]]
            /\ UNCHANGED files
       ELSE /\ ret' = [op |-> "save_results", arg |-> filepath, raised |-> FALSE,
                       write_failed |-> FALSE, before |-> files[filepath]]
            /\ files' = [files EXCEPT ![filepath] =
                             write_json(files[filepath], save_data(results, class_names))]
    /\ UNCHANGED <<test_ds, class_names, results, call, crop_file, calls, output_dir>>

\* the evaluate_model step: a new evaluator evaluates the test data and
\* saves the report; an exception is logged and raised again, otherwise
\* the step returns (accuracy, precision, recall, f1)
evaluate_model(open_fails) ==
    /\ ~HasResults
    /\ results' = dataset_results(test_ds, class_names)
    /\ IF open_fails
       THEN /\ ret' = [op |-> "evaluate_model", raised |-> TRUE, write_failed |-> TRUE]
            /\ UNCHANGED files
       ELSE LET metrics == results'.metrics
            IN  /\ ret' = [op |-> "evaluate_model", raised |-> FALSE, write_failed |-> FALSE,
                           val |-> <<metrics.accuracy, metrics.precision,
                                     metrics.recall, metrics.f1>>]
                /\ files' = [files EXCEPT !["evaluation_results.json"] =
                                 write_json(@, save_data(results', class_names))]
    /\ UNCHANGED <<test_ds, class_names, call, crop_file, calls, output_dir>>

KArgs == 0 .. (NumClasses + 1)
NArgs == 0 .. MaxBatch

\* the evaluation run with its ranking queries
Next ==
    \/ evaluate_dataset
    \/ \E oh \in BOOLEAN : evaluate_arrays(oh)
    \/ \E k \in KArgs : get_top_k_accuracy(k)
    \/ \E n \in NArgs : get_worst_predictions(n)

Spec == Init /\ [][Next]_vars

\* the evaluation run with its report
NextReport ==
    \/ evaluate_dataset
    \/ \E oh \in BOOLEAN : evaluate_arrays(oh)
    \/ \E p \in Paths, f \in BOOLEAN : save_results(p, f)

SpecReport == Init /\ [][NextReport]_vars

\* the evaluations of one evaluator with their failures: the test data as
\* a dataset, and its first sample as arrays
Failures == {"none", "predict", "metrics"}

NextFaults ==
    \/ \E fail_at \in 0 .. MaxBatch : evaluate_dataset_run(fail_at)
    \/ \E oh \in BOOLEAN, failure \in Failures :
          evaluate_arrays_on(SubSeq(test_ds, 1, 1), oh, failure)

SpecFaults == Init /\ [][NextFaults]_vars

\* the arguments the evaluation step gives the reporting operations
Top5K == 5
Worst10N == 10

\* the reporting operations as the evaluation step calls them, before and
\* after the evaluation
NextReporting ==
    \/ evaluate_dataset
    \/ get_top_k_accuracy(Top5K)
    \/ get_worst_predictions(Worst10N)
    \/ get_confusion_matrix
    \/ \E p \in Paths, f \in BOOLEAN : save_results(p, f)

SpecReporting == Init /\ [][NextReporting]_vars

\* class-name lists one shorter than, as long as and one longer than the
\* classifier's probability rows are wide
Vocabularies ==
    {[i \in 1 .. n |-> <<"breed", i - 1>>] : n \in (NumClasses - 1) .. (NumClasses + 1)}

\* an evaluator constructed with any of these lists
InitVocabulary ==
    /\ test_ds \in Datasets
    /\ class_names \in Vocabularies
    /\ results = <<>>
    /\ ret = NoRet
    /\ files = [p \in Paths |-> NoFile]
    /\ call = NoCall
    /\ calls = NoCalls
    /\ output_dir = NoOutput
    /\ crop_file = NoFile

NextVocabulary ==
    \/ evaluate_dataset
    \/ get_worst_predictions(Worst10N)
    \/ \E p \in Paths, f \in BOOLEAN : save_results(p, f)

SpecVocabulary == InitVocabulary /\ [][NextVocabulary]_vars

\* the report an earlier run left at the path
StaleReport ==
    [metrics |-> <<>>, class_names |-> <<>>, num_samples |-> 0, classes_in_test_data |-> 0]

\* the evaluation step and the saving of its report, started with or
\* without an earlier report on disk
InitSave ==
    /\ test_ds \in Datasets
    /\ class_names = [i \in 1 .. NumClasses |-> <<"breed", i - 1>>]
    /\ results = <<>>
    /\ ret = NoRet
    /\ files \in [Paths -> {NoFile, <<StaleReport>>}]
    /\ call = NoCall
    /\ calls = NoCalls
    /\ output_dir = NoOutput
    /\ crop_file = NoFile

NextSave ==
    \/ \E f \in BOOLEAN : evaluate_model(f)
    \/ \E p \in Paths, f \in BOOLEAN : save_results(p, f)

SpecSave == InitSave /\ [][NextSave]_vars

\* -------------------------------------------------------- predict_breed
\* the breed vocabulary of the serving classifier and the detector's
\* output length
NumBreeds == 4
MaxDetections == 2

\* COCO class 16 = dog; the top 3 predictions are kept
COCO_DOG == 16
TopK == 3

Breeds == 0 .. (NumBreeds - 1)
BREED_CLASSES == [i \in 1 .. NumBreeds |-> <<"breed", i - 1>>]

\* classifier.predict(x)[0]: one probability per breed
BreedLevels == {0, 4, 8, 12}
BreedProbs ==
    {v \in [Breeds -> BreedLevels] : SumSeq([i \in 1 .. NumBreeds |-> v[i - 1]]) = One}

\* image sizes (w, h) in pixels, and detector boxes (x1, y1, x2, y2) in
\* half pixels: inside the image, reaching over its left and upper edge,
\* reaching over its right and lower edge, at the right edge of the wide
\* image and outside the narrow one, and narrower than a pixel
ImageSizes == {<<4, 3>>, <<2, 2>>}
Boxes ==
    {<<1, 1, 5, 5>>, <<-3, -1, 7, 3>>, <<2, 2, 11, 9>>, <<6, 0, 12, 4>>, <<2, 2, 3, 5>>}

\* one detection: category, confidence (probability units), box
Detections == [cls : {0, COCO_DOG}, conf : {5, 15}, xyxy : Boxes]

\* results[0].boxes: None, or the detections in the detector's order
NoBoxes == [is_none |-> TRUE, data |-> <<>>]
DetectorOutputs ==
    {[is_none |-> FALSE, data |-> d] : d \in SeqsUpTo(Detections, MaxDetections)}
        \cup {NoBoxes}

\* dog_box = None
NoBox == <<>>

\* int(): a coordinate in half pixels truncated toward zero to pixels
int(v) == IF v >= 0 THEN v \div 2 ELSE -((-v) \div 2)

max(a, b) == IF a >= b THEN a ELSE b
min(a, b) == IF a <= b THEN a ELSE b

\* mutation: the loop has no break, so the last box of class 16 is kept
RECURSIVE dog_box_last(_, _)
dog_box_last(boxes, i) ==
    IF i > Len(boxes) THEN NoBox
    ELSE LET later == dog_box_last(boxes, i + 1)
         IN  IF later # NoBox THEN later
             ELSE IF boxes[i].cls = COCO_DOG THEN boxes[i].xyxy ELSE NoBox

\* mutation: without a box of class 16 the upper left of the image is
\* taken instead of None
RECURSIVE dog_box_or_corner(_, _)
dog_box_or_corner(boxes, i) ==
    IF i > Len(boxes) THEN <<0, 0, 4, 4>>
    ELSE IF boxes[i].cls = COCO_DOG THEN boxes[i].xyxy
    ELSE dog_box_or_corner(boxes, i + 1)

\* the loop over the boxes from position i: the first box of class 16
RECURSIVE dog_box_from(_, _)
dog_box_from(boxes, i) ==
    IF i > Len(boxes) THEN NoBox
    ELSE IF boxes[i].cls = COCO_DOG THEN boxes[i].xyxy
    ELSE dog_box_from(boxes, i + 1)

\* mutation: the box is clamped at the left and upper edge only
clamp_low_only(dog_box, w, h) ==
    <<max(0, int(dog_box[1])), max(0, int(dog_box[2])), int(dog_box[3]), int(dog_box[4])>>

\* map(int, dog_box), then the box clamped to the image
clamp(dog_box, w, h) ==
    <<max(0, int(dog_box[1])), max(0, int(dog_box[2])),
      min(w, int(dog_box[3])), min(h, int(dog_box[4]))>>

\* mutation: only an inverted box is refused
invalid_crop_inverted(box) == box[3] < box[1] \/ box[4] < box[2]

\* x2 <= x1 or y2 <= y1
invalid_crop(box) == box[3] <= box[1] \/ box[4] <= box[2]

\* s[::-1]
RECURSIVE reversed(_)
reversed(s) == IF s = <<>> THEN <<>> ELSE reversed(Tail(s)) \o <<Head(s)>>

\* mutation: the ascending order is not reversed
top_indices_ascending(probs) == slice_from(argsort(probs), -TopK)

\* probs.argsort()[-3:][::-1]
top_indices(probs) == reversed(slice_from(argsort(probs), -TopK))

\* the list of {breed, confidence} built from the top indices
RECURSIVE top_predictions(_, _)
top_predictions(probs, indices) ==
    IF indices = <<>> THEN <<>>
    ELSE <<[breed |-> BREED_CLASSES[Head(indices) + 1], confidence |-> probs[Head(indices)]]>>
             \o top_predictions(probs, Tail(indices))

\* what predict_breed returns: {"error": ...} or the breed and confidence
\* of the first list entry (the adoption fields looked up from the breed
\* are left out)
error(message) == [op |-> "predict_breed", val |-> [error |-> message]]
returned(wrote_crop, classified) ==
    [pc |-> "returned", wrote_crop |-> wrote_crop, classified |-> classified]

\* predict_breed up to the detector's answer: the image is opened and
\* given to yolo; an exception is caught and returned as an error
predict_breed_detect(size, boxes, raises) ==
    /\ call.pc = "idle"
    /\ IF raises
       THEN /\ call' = returned(FALSE, FALSE)
            /\ ret' = error("str(e)")
       ELSE /\ call' = [pc |-> "detected", w |-> size[1], h |-> size[2], boxes |-> boxes]
            /\ ret' = NoRet
    /\ UNCHANGED <<test_ds, class_names, results, files, crop_file, calls, output_dir>>

\* predict_breed from the detector's answer to the written crop: the
\* first dog box is chosen, clamped, checked and cut out of the image
predict_breed_crop ==
    /\ call.pc = "detected"
    /\ LET done == returned(FALSE, FALSE) @@ [w |-> call.w, h |-> call.h, boxes |-> call.boxes]
       IN  IF call.boxes.is_none
           THEN /\ ret' = error("No dogs detected")
                /\ call' = done
                /\ UNCHANGED crop_file
           ELSE LET dog_box == dog_box_from(call.boxes.data, 1)
                IN  IF dog_box = NoBox
                    THEN /\ ret' = error("No dog detected")
                         /\ call' = done
                         /\ UNCHANGED crop_file
                    ELSE LET box == clamp(dog_box, call.w, call.h)
                         IN  IF invalid_crop(box)
                             THEN /\ ret' = error("Invalid crop dimensions")
                                  /\ call' = done
                                  /\ UNCHANGED crop_file
                             ELSE /\ crop_file' = [x1 |-> box[1], y1 |-> box[2],
                                                   x2 |-> box[3], y2 |-> box[4]]
                                  /\ call' = [call EXCEPT !.pc = "cropped"]
                                  /\ UNCHANGED ret
    /\ UNCHANGED <<test_ds, class_names, results, files, calls, output_dir>>

\* predict_breed from the written crop to its return: the crop is loaded
\* and classified, the top predictions are listed and the crop removed;
\* an exception is caught and returned as an error, the crop left behind
predict_breed_classify(probs, raises) ==
    /\ call.pc = "cropped"
    /\ IF raises
       THEN /\ call' = returned(TRUE, TRUE)
            /\ ret' = error("str(e)")
            /\ UNCHANGED crop_file
       ELSE LET indices == top_indices(probs)
                top == top_predictions(probs, indices)
            IN  /\ call' = returned(TRUE, TRUE) @@
                              [probs |-> probs, top_indices |-> indices, top_predictions |-> top]
                /\ crop_file' = NoFile
                /\ ret' = [op |-> "predict_breed",
                           val |-> [breed |-> top[1].breed, confidence |-> top[1].confidence]]
    /\ UNCHANGED <<test_ds, class_names, results, files, calls, output_dir>>

\* the serving process: no evaluator, one image submitted
InitPredict ==
    /\ test_ds = <<>>
    /\ class_names = BREED_CLASSES
    /\ results = <<>>
    /\ ret = NoRet
    /\ files = [p \in Paths |-> NoFile]
    /\ call = NoCall
    /\ calls = NoCalls
    /\ output_dir = NoOutput
    /\ crop_file = NoFile

NextPredict ==
    \/ \E size \in ImageSizes, boxes \in DetectorOutputs, raises \in BOOLEAN :
          predict_breed_detect(size, boxes, raises)
    \/ predict_breed_crop
    \/ \E probs \in BreedProbs, raises \in BOOLEAN : predict_breed_classify(probs, raises)

SpecPredict == InitPredict /\ [][NextPredict]_vars

\* ------------------------------------------- predict_breed in threads
\* the requests the development server handles at the same time, each in
\* a thread of its own
NumThreads == 2
Threads == 1 .. NumThreads

\* the classifier's probabilities for a crop of a dog of breed `best`
UploadProbs(best, second) ==
    [c \in Breeds |-> IF c = best THEN 12 ELSE IF c = second THEN 8 ELSE 0]

\* the uploaded images: two with one dog each, of different breeds and at
\* different places, and one without a dog
Uploads ==
    << [w |-> 4, h |-> 3, probs |-> UploadProbs(0, 1),
        boxes |-> [is_none |-> FALSE,
                   data |-> <<[cls |-> COCO_DOG, conf |-> 15, xyxy |-> <<1, 1, 5, 5>>]>>]],
       [w |-> 4, h |-> 3, probs |-> UploadProbs(1, 2),
        boxes |-> [is_none |-> FALSE,
                   data |-> <<[cls |-> COCO_DOG, conf |-> 15, xyxy |-> <<2, 2, 11, 9>>]>>]],
       [w |-> 2, h |-> 2, probs |-> UploadProbs(2, 0),
        boxes |-> [is_none |-> FALSE,
                   data |-> <<[cls |-> 0, conf |-> 15, xyxy |-> <<1, 1, 5, 5>>]>>]] >>

\* classifier.predict on a loaded crop: the crop's pixels decide
classifier(crop) == Uploads[crop.img].probs

\* the thread's call returns `out`
thread_return(t, out) == [calls EXCEPT ![t].pc = "returned", ![t].out = out]

\* thread t up to cv2.imwrite(crop_path, dog_crop): its own image is
\* detected, the box chosen, clamped and checked, and the crop written to
\* the path all calls use
predict_thread_crop(t) ==
    /\ calls[t].pc = "idle"
    /\ LET u == Uploads[calls[t].img]
           dog_box == dog_box_from(u.boxes.data, 1)
           box == clamp(dog_box, u.w, u.h)
       IN  IF u.boxes.is_none
           THEN calls' = thread_return(t, [error |-> "No dogs detected"]) /\ UNCHANGED crop_file
           ELSE IF dog_box = NoBox
           THEN calls' = thread_return(t, [error |-> "No dog detected"]) /\ UNCHANGED crop_file
           ELSE IF invalid_crop(box)
           THEN /\ calls' = thread_return(t, [error |-> "Invalid crop dimensions"])
                /\ UNCHANGED crop_file
           ELSE /\ crop_file' = [img |-> calls[t].img, x1 |-> box[1], y1 |-> box[2],
                                 x2 |-> box[3], y2 |-> box[4]]
                /\ calls' = [calls EXCEPT ![t].pc = "cropped"]
    /\ UNCHANGED <<test_ds, class_names, results, ret, files, call, output_dir>>

\* thread t at image.load_img(crop_path): it reads what the path holds
\* now; a missing file is an exception, returned as an error
predict_thread_load(t) ==
    /\ calls[t].pc = "cropped"
    /\ IF crop_file = NoFile
       THEN calls' = thread_return(t, [error |-> "str(e)"])
       ELSE calls' = [calls EXCEPT ![t].pc = "loaded", ![t].loaded = crop_file]
    /\ UNCHANGED <<test_ds, class_names, results, ret, files, call, crop_file, output_dir>>

\* thread t from classifier.predict to os.path.exists(crop_path)
predict_thread_classify(t) ==
    /\ calls[t].pc = "loaded"
    /\ LET probs == classifier(calls[t].loaded)
           top == top_predictions(probs, top_indices(probs))
       IN  calls' = [calls EXCEPT ![t].pc = "classified",
                                  ![t].exists = (crop_file # NoFile),
                                  ![t].out = [breed |-> top[1].breed,
                                              confidence |-> top[1].confidence]]
    /\ UNCHANGED <<test_ds, class_names, results, ret, files, call, crop_file, output_dir>>

\* thread t at os.remove(crop_path) and the return: removing a file that
\* is gone by now is an exception, returned as an error
predict_thread_remove(t) ==
    /\ calls[t].pc = "classified"
    /\ IF ~calls[t].exists
       THEN calls' = thread_return(t, calls[t].out) /\ UNCHANGED crop_file
       ELSE IF crop_file = NoFile
       THEN calls' = thread_return(t, [error |-> "str(e)"]) /\ UNCHANGED crop_file
       ELSE calls' = thread_return(t, calls[t].out) /\ crop_file' = NoFile
    /\ UNCHANGED <<test_ds, class_names, results, ret, files, call, output_dir>>

\* every thread has an image of its own
InitThreads ==
    /\ test_ds = <<>>
    /\ class_names = BREED_CLASSES
    /\ results = <<>>
    /\ ret = NoRet
    /\ files = [p \in Paths |-> NoFile]
    /\ call = NoCall
    /\ crop_file = NoFile
    /\ output_dir = NoOutput
    /\ \E images \in [Threads -> DOMAIN Uploads] :
          /\ \A t1, t2 \in Threads : images[t1] = images[t2] => t1 = t2
          /\ calls = [t \in Threads |->
                         [pc |-> "idle", img |-> images[t], loaded |-> NoFile,
                          exists |-> FALSE, out |-> <<>>]]

NextThreads ==
    \E t \in Threads :
        \/ predict_thread_crop(t)
        \/ predict_thread_load(t)
        \/ predict_thread_classify(t)
        \/ predict_thread_remove(t)

SpecThreads == InitThreads /\ [][NextThreads]_vars

\* ------------------------------------------------------------------
\* steps/data_divider.py: data_divider
\* ------------------------------------------------------------------

\* the largest number of images in one breed folder of the archive
MaxImages == 4

\* a file of the archive: its name without the extension, and its extension
File(stem, ext) == [stem |-> stem, ext |-> ext]

\* str.lower on the extensions that occur in the archives
lower(ext) == IF ext = "JPG" THEN "jpg" ELSE IF ext = "PNG" THEN "png" ELSE ext

\* f.lower().endswith(('.jpg', '.jpeg', '.png'))
is_image(f) == lower(f.ext) \in {"jpg", "jpeg", "png"}

\* the extension of the i-th image of a breed folder
ExtOf(i) == IF i % 3 = 1 THEN "jpg" ELSE IF i % 3 = 2 THEN "JPG" ELSE "png"

\* the entries under the images root of the archive: two breed folders,
\* the first with a file that is no image, and a plain file
Entries ==
    <<[is_dir |-> TRUE, name |-> "n02085620-Chihuahua",
       files |-> {File(i, ExtOf(i)) : i \in 1 .. MaxImages} \cup {File(0, "txt")}],
      [is_dir |-> TRUE, name |-> "n02085782-Japanese_spaniel",
       files |-> {File(i, ExtOf(i)) : i \in 1 .. (MaxImages - 1)}],
      [is_dir |-> FALSE, name |-> "README", files |-> {}]>>

\* the archives data_path can name: the zip holds the entries under a
\* folder Images, the rar is not supported
DataPaths == {"Images.zip", "images.rar"}

supported(data_path) == data_path = "Images.zip"

\* zip_ref.extractall(extract_dir)
extractall(data_path) == [nested |-> TRUE, entries |-> Entries]

NoExtract == [nested |-> FALSE, entries |-> <<>>]

\* os.listdir(extract_dir) is empty
nothing_extracted(dir) == dir.extracted.entries = <<>>

\* breed_folders: the names of the directories under the images root
breed_folders(extracted) ==
    {extracted.entries[i].name : i \in {j \in DOMAIN extracted.entries : extracted.entries[j].is_dir}}

\* os.listdir(breed_path)
listdir(extracted, breed_folder) ==
    LET i == CHOOSE j \in DOMAIN extracted.entries : extracted.entries[j].name = breed_folder
    IN  extracted.entries[i].files

image_files(extracted, breed_folder) == {f \in listdir(extracted, breed_folder) : is_image(f)}

\* random.shuffle: every order of the files can come out
shuffles(fs) ==
    {s \in [1 .. Cardinality(fs) -> fs] : \A i, j \in DOMAIN s : s[i] = s[j] => i = j}

\* one shuffled list of image files for every breed folder of the loop
RECURSIVE orders(_, _)
orders(extracted, todo) ==
    IF todo = {}
    THEN {<<>>}
    ELSE LET b == CHOOSE x \in todo : TRUE
         IN  {[x \in DOMAIN rest \cup {b} |-> IF x = b THEN s ELSE rest[x]] :
                 rest \in orders(extracted, todo \ {b}),
                 s \in shuffles(image_files(extracted, b))}

\* int(len(image_files) * train_split), train_split = 0.8
split_idx(n) == (n * 8) \div 10

train_files(s) == {s[i] : i \in 1 .. split_idx(Len(s))}

val_files(s) == {s[i] : i \in (split_idx(Len(s)) + 1) .. Len(s)}

\* the files of a breed folder under train or val, none without the folder
folder(dir, breed_folder) == IF breed_folder \in DOMAIN dir THEN dir[breed_folder] ELSE {}

\* shutil.copy2 of the chosen files into folders that keep what they hold
copy_into(dir, chosen) ==
    [b \in DOMAIN dir \cup DOMAIN chosen |->
        folder(dir, b) \cup (IF b \in DOMAIN chosen THEN chosen[b] ELSE {})]

\* one run of data_divider(data_path, output_dir) on the output directory
data_divider(data_path) ==
    IF nothing_extracted(output_dir) /\ ~supported(data_path)
    THEN /\ ret' = [op |-> "data_divider", raised |-> TRUE]
         /\ UNCHANGED <<test_ds, class_names, results, files, call, crop_file, calls, output_dir>>
    ELSE LET extracted == IF nothing_extracted(output_dir)
                          THEN extractall(data_path)
                          ELSE output_dir.extracted
             breeds == breed_folders(extracted)
         IN  \E order \in orders(extracted, breeds) :
                /\ output_dir' =
                       [extracted |-> extracted,
                        train |-> copy_into(output_dir.train, [b \in breeds |-> train_files(order[b])]),
                        val |-> copy_into(output_dir.val, [b \in breeds |-> val_files(order[b])])]
                /\ ret' = [op |-> "data_divider", raised |-> FALSE, val |-> <<"train", "val">>]
                /\ UNCHANGED <<test_ds, class_names, results, files, call, crop_file, calls>>

\* an output directory that no run has written to
InitDivider ==
    /\ test_ds = <<>>
    /\ class_names = BREED_CLASSES
    /\ results = <<>>
    /\ ret = NoRet
    /\ files = [p \in Paths |-> NoFile]
    /\ call = NoCall
    /\ crop_file = NoFile
    /\ calls = NoCalls
    /\ output_dir = [extracted |-> NoExtract, train |-> <<>>, val |-> <<>>]

NextDivider == \E data_path \in DataPaths : data_divider(data_path)

SpecDivider == InitDivider /\ [][NextDivider]_vars

\* ------------------------------------------------------------ properties
\* what the stored results say about sample i (1-based position)
Conf(i) == results.y_pred_proba[i][results.y_pred[i]]
Misclassified(i) == results.y_pred[i] # results.y_true[i]
NumSamples == Len(results.y_true)
Min(a, b) == IF a <= b THEN a ELSE b

\* the probability n/d in fixed-point units
Frac(n, d) == (n * One) \div d

WorstReturned == ret.op = "get_worst_predictions" /\ HasResults
ReturnedIndexes == {ret.val[j].index : j \in DOMAIN ret.val}

\* C1: every entry returned by get_worst_predictions has as error score
\* the confidence of the predicted label when the sample is misclassified
\* and 1 - confidence when it is classified correctly, so the score lies
\* in [0, 1]; with n at least the number of samples every sample has one.
C1_ErrorScore ==
    WorstReturned =>
        /\ \A j \in DOMAIN ret.val :
              LET e == ret.val[j]
                  i == e.index + 1
              IN  /\ i \in DOMAIN results.y_true
                  /\ e.is_correct = ~Misclassified(i)
                  /\ Misclassified(i) => e.error_score = Conf(i)
                  /\ ~Misclassified(i) => e.error_score = One - Conf(i)
                  /\ 0 <= e.error_score /\ e.error_score <= One
        /\ ret.arg >= NumSamples => ReturnedIndexes = 0 .. (NumSamples - 1)

C1_Witness ==
    /\ WorstReturned
    /\ Len(ret.val) = NumSamples
    /\ \E j, k \in DOMAIN ret.val : ret.val[j].is_correct /\ ~ret.val[k].is_correct

\* the error score the spec gives sample i
SpecErrorScore(i) == IF Misclassified(i) THEN Conf(i) ELSE One - Conf(i)

\* C2: get_worst_predictions(n), n >= 0, returns min(n, number of samples)
\* distinct samples in non-increasing error score, and no sample left out
\* has a higher error score than a returned one.
C2_TopN ==
    (WorstReturned /\ ret.arg >= 0) =>
        /\ Len(ret.val) = Min(ret.arg, NumSamples)
        /\ \A j \in 1 .. (Len(ret.val) - 1) :
              ret.val[j].error_score >= ret.val[j + 1].error_score
        /\ \A j, k \in DOMAIN ret.val : ret.val[j].index = ret.val[k].index => j = k
        /\ \A i \in DOMAIN results.y_true :
              (i - 1) \notin ReturnedIndexes =>
                  \A j \in DOMAIN ret.val : SpecErrorScore(i) <= ret.val[j].error_score

C2_Witness ==
    /\ WorstReturned
    /\ Len(ret.val) >= 2 /\ Len(ret.val) < NumSamples
    /\ ret.val[1].error_score > ret.val[2].error_score
    /\ \E i \in DOMAIN results.y_true :
          (i - 1) \notin ReturnedIndexes /\ SpecErrorScore(i) < ret.val[Len(ret.val)].error_score

\* the stored results are those of the documented four-sample scenario
ScenarioEvaluated ==
    /\ HasResults
    /\ results.y_true = <<0, 0, 1, 1>>
    /\ results.y_pred = <<0, 1, 1, 1>>
    /\ [i \in 1 .. 4 |-> Conf(i)] = <<Frac(9, 10), Frac(4, 10), Frac(8, 10), Frac(95, 100)>>

PositionOf(index) == CHOOSE j \in DOMAIN ret.val : ret.val[j].index = index

\* C3: on the scenario batch the accuracy is 3/4, class 0 has precision 1
\* and recall 1/2, class 1 has precision 2/3 and recall 1,
\* get_worst_predictions(1) returns sample 1 with error score 0.4, and in
\* the full ranking sample 1 stands before sample 3, whose score is 0.05.
C3_Scenario ==
    ScenarioEvaluated =>
        /\ results.metrics.accuracy = <<3, 4>>
        /\ results.metrics.precision_per_class = << <<1, 1>>, <<2, 3>> >>
        /\ results.metrics.recall_per_class = << <<1, 2>>, <<1, 1>> >>
        /\ (WorstReturned /\ ret.arg = 1) =>
              /\ Len(ret.val) = 1
              /\ ret.val[1].index = 1
              /\ ~ret.val[1].is_correct
              /\ ret.val[1].error_score = Frac(4, 10)
        /\ (WorstReturned /\ ret.arg >= 4) =>
              /\ PositionOf(1) < PositionOf(3)
              /\ ret.val[PositionOf(3)].error_score = Frac(5, 100)
              /\ ret.val[PositionOf(3)].is_correct

C3_Witness == ScenarioEvaluated /\ WorstReturned /\ ret.arg = 1 /\ Len(ret.val) = 1

\* what the stored labels say about class c
Support(c) == Cardinality({i \in DOMAIN results.y_true : results.y_true[i] = c})
Predicted(c) == Cardinality({i \in DOMAIN results.y_pred : results.y_pred[i] = c})
Hits(c) ==
    Cardinality({i \in DOMAIN results.y_true : results.y_true[i] = c /\ results.y_pred[i] = c})

ObservedLabels == {c \in Classes : Support(c) > 0 \/ Predicted(c) > 0}

\* the i-th observed label in ascending order
LabelAt(i) ==
    CHOOSE c \in ObservedLabels : Cardinality({d \in ObservedLabels : d < c}) = i - 1

\* v is the ratio num/den, or 0 when den = 0
IsRatio(v, num, den) ==
    IF den = 0 THEN v = Zero ELSE v[2] > 0 /\ v[1] * den = num * v[2]

PerClassArrays ==
    {results.metrics.precision_per_class, results.metrics.recall_per_class,
     results.metrics.f1_per_class}

\* C4: the per-class precision, recall and F1 arrays have one length, which
\* is num_classes_in_data (saved as classes_in_test_data) and the number of
\* distinct labels among true and predicted labels, and entry i is the
\* metric of the i-th observed label in ascending order, while
\* total_classes stays the size of the vocabulary.
C4_PerClassAligned ==
    /\ HasResults =>
          LET m == results.metrics
          IN  /\ \A a \in PerClassArrays : Len(a) = Cardinality(ObservedLabels)
              /\ m.num_classes_in_data = Cardinality(ObservedLabels)
              /\ m.total_classes = Len(class_names)
              /\ \A i \in 1 .. Cardinality(ObservedLabels) :
                    LET c == LabelAt(i)
                    IN  /\ IsRatio(m.precision_per_class[i], Hits(c), Predicted(c))
                        /\ IsRatio(m.recall_per_class[i], Hits(c), Support(c))
                        /\ IsRatio(m.f1_per_class[i], 2 * Hits(c), Support(c) + Predicted(c))
    /\ \A p \in Paths :
          files[p] # NoFile =>
              /\ Len(files[p]) = 1
              /\ files[p][1].classes_in_test_data = Len(files[p][1].metrics.precision_per_class)
              /\ files[p][1].classes_in_test_data = Cardinality(ObservedLabels)

C4_Witness ==
    /\ HasResults
    /\ \E p \in Paths : files[p] # NoFile
    /\ Cardinality(ObservedLabels) >= 2
    /\ Cardinality(ObservedLabels) < Len(class_names)
    /\ \E c \in ObservedLabels : Support(c) = 0

\* the classes that have an entry in the per-class arrays
EntryLabels ==
    {LabelAt(i) : i \in 1 .. Min(Len(results.metrics.precision_per_class),
                                 Cardinality(ObservedLabels))}

EntryOf(c) == CHOOSE i \in 1 .. Cardinality(ObservedLabels) : LabelAt(i) = c

\* C5 as claimed: a class without true members has no entry in the
\* per-class arrays.
C5_ZeroSupportAbsent ==
    HasResults => \A c \in Classes : Support(c) = 0 => c \notin EntryLabels

\* C5 as amended: a class that is neither a true nor a predicted label has
\* no entry; a class without true members that is predicted has an entry,
\* and its precision, recall and F1 are 0.
C5_Amended ==
    HasResults =>
        /\ \A a \in PerClassArrays :
              Len(a) = Cardinality({c \in Classes : Support(c) > 0 \/ Predicted(c) > 0})
        /\ \A c \in Classes :
              /\ (Support(c) = 0 /\ Predicted(c) = 0) => c \notin EntryLabels
              /\ (Support(c) = 0 /\ Predicted(c) > 0) =>
                    /\ c \in EntryLabels
                    /\ \A a \in PerClassArrays : a[EntryOf(c)] = Zero

C5_Witness ==
    /\ HasResults
    /\ \E c \in Classes : Support(c) = 0 /\ Predicted(c) > 0
    /\ \E c \in Classes : Support(c) = 0 /\ Predicted(c) = 0

\* the reorderings of n samples
Perms(n) == {f \in [1 .. n -> 1 .. n] : \A i, j \in 1 .. n : f[i] = f[j] => i = j}

Reordered(s, f) == [i \in DOMAIN s |-> s[f[i]]]

\* C6: _calculate_metrics gives the same record for every reordering of
\* the evaluated samples.
C6_PermutationInvariant ==
    HasResults =>
        \A f \in Perms(NumSamples) :
            _calculate_metrics(Reordered(results.y_true, f), Reordered(results.y_pred, f),
                               Reordered(results.y_pred_proba, f), Len(class_names))
                = results.metrics

C6_Witness ==
    /\ HasResults
    /\ Cardinality(ObservedLabels) >= 2
    /\ \E f \in Perms(NumSamples) :
          /\ Reordered(results.y_true, f) # results.y_true
          /\ Reordered(results.y_pred, f) # results.y_pred

\* sum over the observed classes of support times the class's entry, as
\* the pair <<numerator, denominator>> (not reduced)
RECURSIVE SupportWeightedSum(_, _)
SupportWeightedSum(a, i) ==
    IF i = 0 THEN <<0, 1>>
    ELSE LET rest == SupportWeightedSum(a, i - 1)
         IN  <<rest[1] * a[i][2] + Support(LabelAt(i)) * a[i][1] * rest[2], rest[2] * a[i][2]>>

IsSupportWeightedMean(v, a) ==
    LET total == SupportWeightedSum(a, Len(a))
    IN  v[2] > 0 /\ v[1] * total[2] * NumSamples = total[1] * v[2]

\* C7: overall precision, recall and F1 are the per-class entries averaged
\* with the classes' supports as weights: sum of support times entry,
\* divided by the number of samples.
C7_SupportWeighted ==
    HasResults =>
        LET m == results.metrics
        IN  /\ IsSupportWeightedMean(m.precision, m.precision_per_class)
            /\ IsSupportWeightedMean(m.recall, m.recall_per_class)
            /\ IsSupportWeightedMean(m.f1, m.f1_per_class)

C7_Witness ==
    /\ HasResults
    /\ \E i, j \in DOMAIN results.metrics.precision_per_class :
          /\ Support(LabelAt(i)) > Support(LabelAt(j))
          /\ results.metrics.precision_per_class[i] # results.metrics.precision_per_class[j]
          /\ results.metrics.recall_per_class[i] # results.metrics.recall_per_class[j]

\* C8: an observed class without predicted members has precision 0, one
\* without true members has recall 0, either has F1 0, and the evaluation
\* that met such a class returned its metrics.
C8_ZeroDivision ==
    HasResults =>
        LET m == results.metrics
        IN  /\ \A i \in DOMAIN m.precision_per_class :
                  /\ Predicted(LabelAt(i)) = 0 =>
                        m.precision_per_class[i] = Zero /\ m.f1_per_class[i] = Zero
                  /\ Support(LabelAt(i)) = 0 =>
                        m.recall_per_class[i] = Zero /\ m.f1_per_class[i] = Zero
            /\ ret.op \in {"evaluate_dataset", "evaluate_arrays"} => ret.val = m

C8_Witness ==
    /\ HasResults
    /\ ret.op \in {"evaluate_dataset", "evaluate_arrays"}
    /\ \E c \in ObservedLabels : Predicted(c) = 0
    /\ \E c \in ObservedLabels : Support(c) = 0

TopKReturned == ret.op = "get_top_k_accuracy" /\ HasResults

\* the number of classes that rank above the true label in sample i's
\* probability row: a higher probability, or the same with a higher index
RankedAbove(i) ==
    LET row == results.y_pred_proba[i]
        t == results.y_true[i]
    IN  Cardinality({c \in DOMAIN row : row[c] > row[t] \/ (row[c] = row[t] /\ c > t)})

\* C9: for 1 <= k <= number of classes, get_top_k_accuracy(k) is the number
\* of samples whose true label is among the k highest-probability classes
\* of the sample's row (equal probabilities ranked by class index),
\* divided by the number of samples.
C9_TopKAccuracy ==
    (TopKReturned /\ 1 <= ret.arg /\ ret.arg <= NumClasses) =>
        IsRatio(ret.val,
                Cardinality({i \in DOMAIN results.y_true : RankedAbove(i) < ret.arg}),
                NumSamples)

C9_Witness ==
    /\ TopKReturned
    /\ 1 < ret.arg /\ ret.arg < NumClasses
    /\ \E i, j \in DOMAIN results.y_true : RankedAbove(i) < ret.arg /\ RankedAbove(j) >= ret.arg
    /\ ret.val[1] > 0 /\ ret.val[1] < ret.val[2]

\* C10 as claimed: the top-k accuracy returned for k1 >= 0 is at most the
\* top-k accuracy of every k2 >= k1 on the same results.
C10_MonotoneInK ==
    (TopKReturned /\ ret.arg >= 0) =>
        \A k2 \in KArgs : ret.arg <= k2 => RatLeq(ret.val, top_k_accuracy(results, k2))

\* C11: for every k at least the number of classes (the width of the
\* probability rows), get_top_k_accuracy(k) returns exactly 1.0 on results
\* whose true labels are all valid class indices.
C11_FullWidthIsOne ==
    (/\ TopKReturned
     /\ ret.arg >= NumClasses
     /\ \A i \in DOMAIN results.y_true : results.y_true[i] \in Classes) =>
        ret.val = <<1, 1>>

C11_Witness ==
    /\ TopKReturned
    /\ ret.arg > NumClasses
    /\ ret.val = <<1, 1>>
    /\ \E i \in DOMAIN results.y_true : Misclassified(i)

\* what the state says about the predict_breed call
DetectorAnswered == "boxes" \in DOMAIN call
Targets == {i \in DOMAIN call.boxes.data : call.boxes.data[i].cls = COCO_DOG}
FirstTarget == CHOOSE i \in Targets : \A j \in Targets : i <= j
Cropped == call.pc = "cropped"
ReturnedError(message) ==
    call.pc = "returned" /\ ret.op = "predict_breed" /\ ret.val = [error |-> message]
Succeeded ==
    call.pc = "returned" /\ ret.op = "predict_breed" /\ "breed" \in DOMAIN ret.val

\* C12 as claimed: the top-k list predict_breed builds is sorted by
\* probability descending, and of two classes with equal probability the
\* one with the lower class index ranks first.
C12_TopKOrder ==
    Succeeded =>
        \A j \in 1 .. (Len(call.top_indices) - 1) :
            LET a == call.top_indices[j]
                b == call.top_indices[j + 1]
            IN  \/ call.probs[a] > call.probs[b]
                \/ call.probs[a] = call.probs[b] /\ a < b

\* the box of the first detection of class 16, in pixels, before clamping
FirstTargetBox == call.boxes.data[FirstTarget].xyxy

\* C13: when the detector output holds detections of class 16, the region
\* predict_breed crops is that of the first of them in the detector's
\* order, whatever the confidences and whatever detections of other
\* categories come before it; a later detection of class 16 is never used.
C13_FirstTargetCropped ==
    Cropped =>
        /\ Targets # {}
        /\ <<crop_file.x1, crop_file.y1, crop_file.x2, crop_file.y2>>
              = clamp(FirstTargetBox, call.w, call.h)

C13_Witness ==
    /\ Cropped
    /\ \E i, j \in Targets :
          /\ i < j
          /\ call.boxes.data[i].conf < call.boxes.data[j].conf
          /\ clamp(call.boxes.data[i].xyxy, call.w, call.h)
                # clamp(call.boxes.data[j].xyxy, call.w, call.h)
          /\ ~invalid_crop(clamp(call.boxes.data[j].xyxy, call.w, call.h))

\* C14: for every box of class 16 the detector gives and every image size,
\* either the region that is cropped satisfies 0 <= x1 < x2 <= width and
\* 0 <= y1 < y2 <= height, or the region is reported invalid and nothing
\* is cropped.
C14_RegionInsideImage ==
    /\ Cropped =>
          /\ 0 <= crop_file.x1 /\ crop_file.x1 < crop_file.x2 /\ crop_file.x2 <= call.w
          /\ 0 <= crop_file.y1 /\ crop_file.y1 < crop_file.y2 /\ crop_file.y2 <= call.h
    /\ (call.pc = "returned" /\ DetectorAnswered /\ Targets # {}) =>
          /\ ReturnedError("Invalid crop dimensions")
          /\ crop_file = NoFile

C14_Witness ==
    /\ Cropped
    /\ int(FirstTargetBox[3]) > call.w /\ crop_file.x2 = call.w
    /\ int(FirstTargetBox[4]) > call.h /\ crop_file.y2 = call.h

\* C15: when the detector returns zero detections, predict_breed returns
\* the error outcome that no dog was found, writes no crop file and does
\* not invoke the classifier.
C15_NoDetections ==
    (call.pc \in {"cropped", "returned"} /\ DetectorAnswered /\ call.boxes.data = <<>>) =>
        /\ ReturnedError("No dog detected") \/ ReturnedError("No dogs detected")
        /\ ~call.wrote_crop
        /\ ~call.classified
        /\ crop_file = NoFile

C15_Witness ==
    /\ call.pc = "returned" /\ DetectorAnswered
    /\ ~call.boxes.is_none /\ call.boxes.data = <<>>
    /\ ReturnedError("No dog detected")

\* the first box of class 16 after truncation to pixels and clamping
ClampedX1 == max(0, int(FirstTargetBox[1]))
ClampedY1 == max(0, int(FirstTargetBox[2]))
ClampedX2 == min(call.w, int(FirstTargetBox[3]))
ClampedY2 == min(call.h, int(FirstTargetBox[4]))
Degenerate == ClampedX2 <= ClampedX1 \/ ClampedY2 <= ClampedY1

\* C16: when the selected box is degenerate after clamping (x2 <= x1 or
\* y2 <= y1), predict_breed returns the invalid-region error as a value
\* (no exception is raised or reported), writes no crop and does not
\* invoke the classifier.
C16_DegenerateBox ==
    (/\ call.pc \in {"cropped", "returned"}
     /\ DetectorAnswered
     /\ Targets # {}
     /\ Degenerate) =>
        /\ ReturnedError("Invalid crop dimensions")
        /\ ~call.wrote_crop
        /\ ~call.classified
        /\ crop_file = NoFile

C16_Witness ==
    /\ ReturnedError("Invalid crop dimensions")
    /\ DetectorAnswered /\ Targets # {}
    /\ ClampedX2 = ClampedX1
    /\ ClampedY2 > ClampedY1

\* C17: on a successful predict_breed call the returned breed is the class
\* name at rank 0 of the top-k list, and the returned confidence is that
\* class's probability, the maximum of the classifier's probability vector.
C17_BestFirst ==
    Succeeded =>
        LET best == call.top_indices[1]
        IN  /\ ret.val.breed = call.top_predictions[1].breed
            /\ ret.val.breed = <<"breed", best>>
            /\ ret.val.confidence = call.probs[best]
            /\ \A c \in Breeds : call.probs[c] <= ret.val.confidence

C17_Witness ==
    /\ Succeeded
    /\ Len(call.top_indices) < NumBreeds
    /\ \E c, d \in Breeds :
          call.probs[c] < call.probs[d] /\ call.probs[d] < ret.val.confidence

\* the samples the claim singles out, by 1-based position
LowestCorrect(i) ==
    /\ ~Misclassified(i)
    /\ \A j \in DOMAIN results.y_true : ~Misclassified(j) => Conf(i) <= Conf(j)
HighestWrong(i) ==
    /\ Misclassified(i)
    /\ \A j \in DOMAIN results.y_true : Misclassified(j) => Conf(j) <= Conf(i)

\* a correct prediction made with a confidence above one half
ConfidentlyCorrect(i) == ~Misclassified(i) /\ 2 * Conf(i) > One

\* sample i stands before sample j in the returned ranking
RanksAbove(i, j) == PositionOf(i - 1) < PositionOf(j - 1)

FullRanking == WorstReturned /\ ret.arg >= NumSamples

\* C18 as claimed: in the ranking of a whole batch the correct sample of
\* lowest confidence and the misclassified sample of highest confidence
\* both stand before every (other) confidently correct sample.
C18_WorstAboveConfident ==
    FullRanking =>
        \A i, c \in DOMAIN results.y_true :
            (ConfidentlyCorrect(c) /\ Conf(c) > Conf(i) /\ (LowestCorrect(i) \/ HighestWrong(i)))
                => RanksAbove(i, c)

\* C18 amended: the correct sample of lowest confidence stands before
\* every correct sample of higher confidence, and the misclassified sample
\* of highest confidence stands before every correct sample whose
\* confidence exceeds 1 minus that confidence.
C18_Amended ==
    FullRanking =>
        \A i, c \in DOMAIN results.y_true :
            /\ (LowestCorrect(i) /\ ~Misclassified(c) /\ Conf(c) > Conf(i)) => RanksAbove(i, c)
            /\ (HighestWrong(i) /\ ~Misclassified(c) /\ Conf(c) > One - Conf(i))
                  => RanksAbove(i, c)

C18_Witness ==
    /\ FullRanking
    /\ \E i, m, c \in DOMAIN results.y_true :
          /\ LowestCorrect(i) /\ HighestWrong(m) /\ ConfidentlyCorrect(c)
          /\ Conf(c) > Conf(i)
          /\ Conf(c) > One - Conf(m)
          /\ RanksAbove(i, c) /\ RanksAbove(m, c)

\* C19 as claimed: when writing the report fails the evaluate step does
\* not raise, it still returns the metrics it computed, and the
\* evaluator's results stay in memory; a direct save_results call does
\* not raise either and leaves the results in place.
C19_WriteFailureTolerated ==
    /\ (ret.op = "evaluate_model" /\ ret.write_failed) =>
          /\ ~ret.raised
          /\ HasResults
          /\ "val" \in DOMAIN ret
    /\ (ret.op = "save_results" /\ ret.write_failed) =>
          /\ ~ret.raised
          /\ HasResults

SavedNow == ret.op = "save_results" /\ ~ret.raised /\ HasResults

\* C20: after save_results has written the results to a path the file
\* holds exactly the one document of those results, whatever the file
\* held before: saving again leaves the same content, and nothing of an
\* earlier content survives.
C20_SaveReplaces ==
    SavedNow =>
        /\ files[ret.arg] = <<save_data(results, class_names)>>
        /\ \A i \in DOMAIN ret.before :
              ret.before[i] # save_data(results, class_names)
                  => ret.before[i] \notin Range(files[ret.arg])

C20_Witness ==
    /\ SavedNow
    /\ ret.before = <<save_data(results, class_names)>>
    /\ files[ret.arg] = ret.before

EvaluateReturned == ret.op \in {"evaluate_dataset", "evaluate_arrays"}

\* C21 as claimed: when the classifier fails on one sample during
\* evaluate_dataset the evaluation is not aborted: the call does not
\* raise, the other samples are processed and the metrics are returned.
C21_FailureSkipped ==
    (ret.op = "evaluate_dataset" /\ ret.failure = "predict") =>
        /\ ~ret.raised
        /\ "val" \in DOMAIN ret
        /\ HasResults
        /\ Len(results.y_true) >= Len(test_ds) - 1

\* the stored results are those of one evaluation of the samples of ds
ResultsDescribe(ds) ==
    /\ results.y_true = [i \in 1 .. Len(ds) |-> ds[i].label]
    /\ results.y_pred_proba = [i \in 1 .. Len(ds) |-> ds[i].proba]
    /\ Len(results.y_pred) = Len(ds)
    /\ \A i \in 1 .. Len(ds) : \A c \in Classes : ds[i].proba[c] <= ds[i].proba[results.y_pred[i]]
    /\ IsRatio(results.metrics.accuracy,
               Cardinality({i \in 1 .. Len(ds) : results.y_pred[i] = ds[i].label}), Len(ds))
    /\ results.metrics.num_classes_in_data = Cardinality(ObservedLabels)

\* C27: over any sequence of evaluate_dataset and evaluate_arrays calls a
\* call that raises leaves results as they were before the call, and a
\* call that returns replaces them wholly, so y_true, y_pred,
\* y_pred_proba and metrics always describe one evaluation, the latest
\* one that returned.
C27_ResultsOfOneEvaluation ==
    /\ [](HasResults =>
            /\ ResultsDescribe(test_ds) \/ ResultsDescribe(SubSeq(test_ds, 1, 1))
            /\ (ret.op = "evaluate_dataset" /\ ~ret.raised) => ResultsDescribe(test_ds)
            /\ (ret.op = "evaluate_arrays" /\ ~ret.raised)
                  => ResultsDescribe(SubSeq(test_ds, 1, 1)))
    /\ [][ret'.raised => results' = results]_vars

C27_Witness ==
    /\ ret.op = "evaluate_arrays" /\ ret.raised /\ ret.failure = "metrics"
    /\ HasResults
    /\ Len(test_ds) > 1
    /\ ResultsDescribe(test_ds)

\* the names get_worst_predictions makes up for labels past the name list
Placeholders == {<<"Class_", c>> : c \in Classes}

\* C22 as claimed: when the class-name list is not as long as the
\* probability rows are wide, the evaluation is aborted with an error
\* before any metric is computed, and no report with truncated labels or
\* placeholder class names is produced.
C22_MismatchAborts ==
    Len(class_names) # NumClasses =>
        /\ ~HasResults
        /\ ret.op = "evaluate_dataset" => ret.raised
        /\ \A p \in Paths : files[p] = NoFile
        /\ ret.op = "get_worst_predictions" =>
              \A j \in DOMAIN ret.val :
                  ret.val[j].true_label \notin Placeholders
                      /\ ret.val[j].pred_label \notin Placeholders

\* C23 as claimed: whenever predict_breed has returned, with a prediction
\* or with any error outcome, the temporary crop file it wrote no longer
\* exists.
C23_CropRemoved ==
    call.pc = "returned" => crop_file = NoFile

\* what predict_breed returns for upload u when no other call is running
OutcomeAlone(u) ==
    LET dog_box == dog_box_from(u.boxes.data, 1)
        top == top_predictions(u.probs, top_indices(u.probs))
    IN  IF u.boxes.is_none THEN [error |-> "No dogs detected"]
        ELSE IF dog_box = NoBox THEN [error |-> "No dog detected"]
        ELSE IF invalid_crop(clamp(dog_box, u.w, u.h)) THEN [error |-> "Invalid crop dimensions"]
        ELSE [breed |-> top[1].breed, confidence |-> top[1].confidence]

\* C24 as claimed: of predict_breed calls that run at the same time on
\* different images, each classifies the crop taken from its own image,
\* and each returns what it returns when it runs alone.
C24_CallsIndependent ==
    \A t \in DOMAIN calls :
        /\ calls[t].loaded # NoFile => calls[t].loaded.img = calls[t].img
        /\ calls[t].pc = "returned" => calls[t].out = OutcomeAlone(Uploads[calls[t].img])

MatrixReturned == ret.op = "get_confusion_matrix" /\ HasResults

\* C25: the matrix get_confusion_matrix returns is square, its side is the
\* number of distinct labels observed as true or predicted (not the size
\* of the vocabulary), its rows and columns follow the observed labels in
\* ascending order, and entry (i, j) is the number of samples whose true
\* label is the i-th observed label and whose predicted label is the j-th.
C25_ConfusionMatrix ==
    MatrixReturned =>
        LET cm == ret.val.cm
            n == Cardinality(ObservedLabels)
        IN  /\ ~ret.val.none
            /\ Len(cm) = n
            /\ \A i \in 1 .. n :
                  /\ Len(cm[i]) = n
                  /\ \A j \in 1 .. n :
                        cm[i][j] = Cardinality({s \in DOMAIN results.y_true :
                                       /\ results.y_true[s] = LabelAt(i)
                                       /\ results.y_pred[s] = LabelAt(j)})

C25_Witness ==
    /\ MatrixReturned
    /\ Cardinality(ObservedLabels) >= 2
    /\ Cardinality(ObservedLabels) < Len(class_names)
    /\ \E i, j \in 1 .. Len(ret.val.cm) : i < j /\ ret.val.cm[i][j] # ret.val.cm[j][i]

\* C28: until an evaluation has succeeded every reporting operation is a
\* no-op that neither raises nor changes state: get_top_k_accuracy
\* returns 0.0, get_worst_predictions an empty list, get_confusion_matrix
\* None, and save_results creates or modifies no file.
C28_NoResultsNoOp ==
    DOMAIN results = {} =>
        /\ ret.op = "get_top_k_accuracy" => ret.val = <<0, 1>>
        /\ ret.op = "get_worst_predictions" => ret.val = <<>>
        /\ ret.op = "get_confusion_matrix" => ret.val.none /\ ret.val.cm = <<>>
        /\ ret.op = "save_results" => ~ret.raised /\ files[ret.arg] = ret.before
        /\ \A p \in Paths : files[p] = NoFile

C28_Witness ==
    /\ DOMAIN results = {}
    /\ ret.op = "save_results"
    /\ \A p \in Paths : files[p] = NoFile

\* C26 as claimed: get_top_k_accuracy(1) equals the accuracy of the
\* metrics report, also when a probability row has several classes tied
\* for the maximum.
C26_Top1IsAccuracy ==
    (TopKReturned /\ ret.arg = 1) => ret.val = results.metrics.accuracy

\* C29: in the list get_worst_predictions returns, entries with equal
\* error score stand in ascending sample index, so the list is determined
\* by the evaluated sample sequence.
C29_TiesByIndex ==
    WorstReturned =>
        \A j, k \in DOMAIN ret.val :
            j < k =>
                \/ ret.val[j].error_score > ret.val[k].error_score
                \/ /\ ret.val[j].error_score = ret.val[k].error_score
                   /\ ret.val[j].index < ret.val[k].index

C29_Witness ==
    /\ WorstReturned
    /\ \E j, k \in DOMAIN ret.val :
          /\ j < k
          /\ ret.val[j].error_score = ret.val[k].error_score
          /\ ret.val[j].is_correct # ret.val[k].is_correct

DividerReturned == ret.op = "data_divider" /\ ~ret.raised

\* C30: after any number of data_divider runs on one output directory,
\* for every breed each source image is in exactly one of the train and
\* val folders, and no file is in both.
C30_TrainValDisjoint ==
    DividerReturned =>
        \A b \in breed_folders(output_dir.extracted) :
            /\ folder(output_dir.train, b) \cap folder(output_dir.val, b) = {}
            /\ \A f \in image_files(output_dir.extracted, b) :
                   (f \in folder(output_dir.train, b)) # (f \in folder(output_dir.val, b))

====
